---- MODULE Spec2Model ----
(***************************************************************************)
(* A model of the rust-zip reader: the record codec of format.rs           *)
(* (LocalFileHeader, CentralDirectoryHeader, EndOfCentralDirectoryRecord), *)
(* and the archive reader of reader.rs (ZipReader::open and new, the Files *)
(* iterator of files_raw, files and file_names, info, read, extract) over  *)
(* a seekable byte stream.                                                 *)
(*                                                                         *)
(* Representation.  A byte is a number in 0..255, a stream a sequence of   *)
(* bytes; offset o of the stream is element o+1 of the sequence.  A u16 is *)
(* a number in 0..65535.  A u32 is the pair <<low 16 bits, high 16 bits>>, *)
(* so that every 32-bit value of the stream is representable.              *)
(***************************************************************************)
EXTENDS Integers, Sequences, FiniteSets, TLC

\* ------------------------------------------------------------------------
\* Bounds of the model
\* ------------------------------------------------------------------------

\* Files::next is called at most this many times on one iterator.
MaxNextCalls == 5

\* ------------------------------------------------------------------------
\* Integers of fixed width
\* ------------------------------------------------------------------------

Max(a, b) == IF a >= b THEN a ELSE b

Min(a, b) == IF a <= b THEN a ELSE b

RECURSIVE Pow2(_)
Pow2(n) == IF n = 0 THEN 1 ELSE 2 * Pow2(n - 1)

\* bit k of the number x
Bit(x, k) == (x \div Pow2(k)) % 2

\* (x & mask) != 0 for a mask of one bit
Masked(x, mask) == (x \div mask) % 2 # 0

RECURSIVE XorN(_, _, _)
\* a ^ b on n-bit numbers
XorN(a, b, n) ==
    IF n = 0 THEN 0
    ELSE (((a % 2) + (b % 2)) % 2) + 2 * XorN(a \div 2, b \div 2, n - 1)

\* a ^ b on 4-bit numbers, tabulated
Xor4 == [a \in 0..15 |-> [b \in 0..15 |-> XorN(a, b, 4)]]

\* a ^ b on u16
Xor16(a, b) ==
    Xor4[a % 16][b % 16]
        + 16 * Xor4[(a \div 16) % 16][(b \div 16) % 16]
        + 256 * Xor4[(a \div 256) % 16][(b \div 256) % 16]
        + 4096 * Xor4[a \div 4096][b \div 4096]

\* a u32 from a number below 2^31
U32(n) == <<n % 65536, n \div 65536>>

\* `x as uint` of a u32 x.  Values of 2^30 and more are all mapped to 2^30:
\* every stream of the model is shorter, so a seek to such an offset or a
\* read of so many bytes ends as for the exact value, in EndOfFile.
Huge == 1073741824

AsUint(w) == IF w[2] >= 16384 THEN Huge ELSE w[1] + 65536 * w[2]

\* ------------------------------------------------------------------------
\* Errors (error.rs) and results
\* ------------------------------------------------------------------------

NoMagic == <<0, 0>>

\* std::io::IoError { kind, desc, detail: None }
IoError(kind, desc) ==
    [variant |-> "IoError", kind |-> kind, desc |-> desc, magic |-> NoMagic]

EndOfFile == IoError("EndOfFile", "end of file")

\* error::SomeIoError(e)
SomeIoError(e) ==
    [variant |-> "SomeIoError", kind |-> e.kind, desc |-> e.desc, magic |-> NoMagic]

NotAZipFile ==
    [variant |-> "NotAZipFile", kind |-> "", desc |-> "", magic |-> NoMagic]

CrcError ==
    [variant |-> "CrcError", kind |-> "", desc |-> "", magic |-> NoMagic]

FileNotFoundInArchive ==
    [variant |-> "FileNotFoundInArchive", kind |-> "", desc |-> "", magic |-> NoMagic]

\* error::InvalidSignature(magic)
InvalidSignature(magic) ==
    [variant |-> "InvalidSignature", kind |-> "", desc |-> "", magic |-> magic]

NoError == [variant |-> "", kind |-> "", desc |-> "", magic |-> NoMagic]

\* try_io!: an IoError becomes SomeIoError(e)
try_io(e) == SomeIoError(e)

\* ------------------------------------------------------------------------
\* The byte stream: std::io::Reader + Seek over the bytes s, at position p
\* ------------------------------------------------------------------------

\* The outcome of one read: ok, the value, the error, the position after it.
\* A read that meets the end of the stream has consumed what was left.
RdOk(v, p) == [ok |-> TRUE, val |-> v, err |-> NoError, pos |-> p]

RdErr(s, p) == [ok |-> FALSE, val |-> 0, err |-> EndOfFile, pos |-> Max(p, Len(s))]

read_le_u16(s, p) ==
    IF p + 2 <= Len(s) THEN RdOk(s[p + 1] + 256 * s[p + 2], p + 2) ELSE RdErr(s, p)

read_le_u32(s, p) ==
    IF p + 4 <= Len(s)
    THEN RdOk(<<s[p + 1] + 256 * s[p + 2], s[p + 3] + 256 * s[p + 4]>>, p + 4)
    ELSE RdErr(s, p)

read_exact(s, p, n) ==
    IF n = 0 THEN RdOk(<<>>, p)
    ELSE IF p + n <= Len(s) THEN RdOk(SubSeq(s, p + 1, p + n), p + n)
    ELSE RdErr(s, p)

\* A variant of seek that takes the offset from the current position
\* (SeekCur).
seek_from_current(p, offset) == p + offset

\* r.seek(offset, SeekSet) with the reader at position p: the position after
seek(p, offset) == offset

\* The fixed fields of a record are read one after the other, each try!-ed.
\* st is what the reads so far gave: ok, the values in order, the position.
Fields(p) == [ok |-> TRUE, vals |-> <<>>, pos |-> p]

Push(st, r) ==
    IF r.ok THEN [ok |-> TRUE, vals |-> Append(st.vals, r.val), pos |-> r.pos]
    ELSE [ok |-> FALSE, vals |-> st.vals, pos |-> r.pos]

\* one more field of the width (2: read_le_u16, 4: read_le_u32)
ReadField(s, st, width) ==
    IF ~st.ok THEN st
    ELSE Push(st, IF width = 2 THEN read_le_u16(s, st.pos) ELSE read_le_u32(s, st.pos))

RECURSIVE ReadFields(_, _, _)
\* the fields of the widths, in the order of the code
ReadFields(s, st, widths) ==
    IF widths = <<>> THEN st
    ELSE ReadFields(s, ReadField(s, st, Head(widths)), Tail(widths))

\* str::from_utf8_owned(bytes) is Ok: the bytes are well-formed UTF-8
RECURSIVE IsUtf8(_)
IsUtf8(b) ==
    IF b = <<>> THEN TRUE
    ELSE LET c == b[1]
             Cont(i) == i <= Len(b) /\ b[i] >= 128 /\ b[i] <= 191
             From(i) == SubSeq(b, i, Len(b))
         IN  IF c <= 127 THEN IsUtf8(From(2))
             ELSE IF c >= 194 /\ c <= 223 THEN Cont(2) /\ IsUtf8(From(3))
             ELSE IF c >= 224 /\ c <= 239
                  THEN /\ Cont(2) /\ Cont(3)
                       /\ (c = 224 => b[2] >= 160)
                       /\ (c = 237 => b[2] <= 159)
                       /\ IsUtf8(From(4))
             ELSE IF c >= 240 /\ c <= 244
                  THEN /\ Cont(2) /\ Cont(3) /\ Cont(4)
                       /\ (c = 240 => b[2] >= 144)
                       /\ (c = 244 => b[2] <= 143)
                       /\ IsUtf8(From(5))
             ELSE FALSE

\* ------------------------------------------------------------------------
\* format.rs: MsdosDateTime { time: u16, date: u16 }, here <<time, date>>
\* ------------------------------------------------------------------------

\* a & b and a | b on numbers below 2^16
And16(a, b) == (a + b - Xor16(a, b)) \div 2

Or16(a, b) == (a + b + Xor16(a, b)) \div 2

\* MsdosDateTime::new; << n is * 2^n, >> 1 is \div 2, `as u16` is % 65536
MsdosDateTime_new(year, month, day, hour, minute, second) ==
    << Or16(Or16(And16(hour, 31) * 2048, And16(minute, 63) * 32),
            And16(second, 63) \div 2) % 65536,
       Or16(Or16(And16(year - 1980, 127) * 512, And16(month, 15) * 32),
            And16(day, 31)) % 65536 >>

MsdosDateTime_year(dt) == And16(dt[2] \div 512, 127) + 1980

MsdosDateTime_month(dt) == And16(dt[2] \div 32, 15)

MsdosDateTime_day(dt) == And16(dt[2], 31)

MsdosDateTime_hour(dt) == And16(dt[1] \div 2048, 31)

MsdosDateTime_minute(dt) == And16(dt[1] \div 32, 63)

\* A variant of second() without the shift.
MsdosDateTime_second_unshifted(dt) == And16(dt[1], 63)

\* (self.time << 1) & 0b111111, the shift on a u16
MsdosDateTime_second(dt) == And16((dt[1] * 2) % 65536, 63)

MsdosDateTime_to_tuple(dt) ==
    << MsdosDateTime_year(dt), MsdosDateTime_month(dt), MsdosDateTime_day(dt),
       MsdosDateTime_hour(dt), MsdosDateTime_minute(dt), MsdosDateTime_second(dt) >>

\* ------------------------------------------------------------------------
\* format.rs: signatures
\* ------------------------------------------------------------------------

\* 0x04034b50
LFH_SIGNATURE == <<19280, 1027>>

\* 0x02014b50
CDH_SIGNATURE == <<19280, 513>>

\* 0x06054b50
EOCDR_SIGNATURE == <<19280, 1541>>

\* fn invalid_signature<T>() -> IoResult<T>
invalid_signature == IoError("InvalidInput", "invalid signature")

\* The outcome of decoding a record at a position: tag is "Ok" (h is the
\* record), "Err" (err is the error returned) or "Panic" (the task failed:
\* an assert! or an unwrap()); pos is the position the stream is left at.
DecOk(h, p) == [tag |-> "Ok", h |-> h, err |-> NoError, pos |-> p]

DecErr(h0, e, p) == [tag |-> "Err", h |-> h0, err |-> e, pos |-> p]

DecPanic(h0, p) == [tag |-> "Panic", h |-> h0, err |-> NoError, pos |-> p]

\* MsdosDateTime::read(r), r at position p of s: the time, then the date,
\* each try!-ed; the error is the IoError of the read
MsdosDateTime_read(s, p) ==
    IF ~read_le_u16(s, p).ok
    THEN DecErr(<<0, 0>>, read_le_u16(s, p).err, read_le_u16(s, p).pos)
    ELSE IF ~read_le_u16(s, p + 2).ok
    THEN DecErr(<<0, 0>>, read_le_u16(s, p + 2).err, read_le_u16(s, p + 2).pos)
    ELSE DecOk(<<read_le_u16(s, p).val, read_le_u16(s, p + 2).val>>, p + 4)

\* ------------------------------------------------------------------------
\* format.rs: LocalFileHeader
\* ------------------------------------------------------------------------

\* LocalFileHeader::new()
LocalFileHeader_new ==
    [version_needed_to_extract |-> 0, general_purpose_bit_flag |-> 0,
     compression_method |-> 0, last_modified_datetime |-> <<0, 0>>,
     crc32 |-> <<0, 0>>, compressed_size |-> <<0, 0>>, uncompressed_size |-> <<0, 0>>,
     file_name_length |-> 0, extra_field_length |-> 0,
     file_name |-> <<>>, extra_field |-> <<>>]

\* the flag getters, section 4.4.4 of APPNOTE.TXT
is_encrypted(h) == Masked(h.general_purpose_bit_flag, 1)

has_data_descriptor(h) == Masked(h.general_purpose_bit_flag, 8)

is_compressed_patched_data(h) == Masked(h.general_purpose_bit_flag, 32)

uses_strong_encryption(h) == Masked(h.general_purpose_bit_flag, 64)

has_UTF8_name(h) == Masked(h.general_purpose_bit_flag, 2048)

uses_masking(h) == Masked(h.general_purpose_bit_flag, 8192)

LocalFileHeader_total_size(h) ==
    LET local_file_header_fixed_size == 30
    IN  local_file_header_fixed_size + h.file_name_length + h.extra_field_length

\* the widths of the fields read after the signature: version, flags, method,
\* time, date, crc32, compressed size, uncompressed size, name length, extra length
LFH_FIELDS == <<2, 2, 2, 2, 2, 4, 4, 4, 2, 2>>

\* A variant of the checks: the five flags 1, 8, 32, 64 and 2048 instead of
\* those the assert! lines name.
LocalFileHeader_supported_first_five(h) ==
    /\ ~is_encrypted(h)
    /\ ~has_data_descriptor(h)
    /\ ~is_compressed_patched_data(h)
    /\ ~uses_strong_encryption(h)
    /\ ~has_UTF8_name(h)

\* the checks for things not supported (yet): all five assert! hold
LocalFileHeader_supported(h) ==
    /\ ~is_encrypted(h)
    /\ ~is_compressed_patched_data(h)
    /\ ~has_data_descriptor(h)
    /\ ~uses_strong_encryption(h)
    /\ ~uses_masking(h)

\* LocalFileHeader::read, from the asserts on: h is the header read
LocalFileHeader_read_checks(h, p) ==
    IF LocalFileHeader_supported(h) THEN DecOk(h, p)
    ELSE DecPanic(LocalFileHeader_new, p)

\* ... from the extra field on: f the fixed fields, name and extra the reads
LocalFileHeader_read_extra(f, name, extra) ==
    IF ~extra.ok THEN DecErr(LocalFileHeader_new, extra.err, extra.pos)
    ELSE LocalFileHeader_read_checks(
             [version_needed_to_extract |-> f.vals[1],
              general_purpose_bit_flag |-> f.vals[2],
              compression_method |-> f.vals[3],
              last_modified_datetime |-> <<f.vals[4], f.vals[5]>>,
              crc32 |-> f.vals[6],
              compressed_size |-> f.vals[7],
              uncompressed_size |-> f.vals[8],
              file_name_length |-> f.vals[9],
              extra_field_length |-> f.vals[10],
              file_name |-> name.val,
              extra_field |-> extra.val],
             extra.pos)

\* ... from the file name on
LocalFileHeader_read_name(s, f, name) ==
    IF ~name.ok THEN DecErr(LocalFileHeader_new, name.err, name.pos)
    ELSE IF ~IsUtf8(name.val) THEN DecPanic(LocalFileHeader_new, name.pos)
    ELSE LocalFileHeader_read_extra(f, name, read_exact(s, name.pos, f.vals[10]))

\* ... from the fixed fields on
LocalFileHeader_read_fields(s, f) ==
    IF ~f.ok THEN DecErr(LocalFileHeader_new, EndOfFile, f.pos)
    ELSE LocalFileHeader_read_name(s, f, read_exact(s, f.pos, f.vals[9]))

\* ... from the signature on: sig is the read of the first word
LocalFileHeader_read_sig(s, sig) ==
    IF ~sig.ok THEN DecErr(LocalFileHeader_new, sig.err, sig.pos)
    ELSE IF sig.val # LFH_SIGNATURE
    THEN DecErr(LocalFileHeader_new, invalid_signature, sig.pos)
    ELSE LocalFileHeader_read_fields(s, ReadFields(s, Fields(sig.pos), LFH_FIELDS))

\* LocalFileHeader::read(r), r at position p of s
LocalFileHeader_read(s, p) == LocalFileHeader_read_sig(s, read_le_u32(s, p))

\* ------------------------------------------------------------------------
\* format.rs: CentralDirectoryHeader
\* ------------------------------------------------------------------------

\* CentralDirectoryHeader::new()
CentralDirectoryHeader_new ==
    [version_made_by |-> 0, version_needed_to_extract |-> 0,
     general_purpose_bit_flag |-> 0, compression_method |-> 0,
     last_modified_datetime |-> <<0, 0>>, crc32 |-> <<0, 0>>,
     compressed_size |-> <<0, 0>>, uncompressed_size |-> <<0, 0>>,
     file_name_length |-> 0, extra_field_length |-> 0, file_comment_length |-> 0,
     disk_number_start |-> 0, internal_file_attributes |-> 0,
     external_file_attributes |-> <<0, 0>>,
     relative_offset_of_local_header |-> <<0, 0>>,
     file_name |-> <<>>, extra_field |-> <<>>, file_comment |-> <<>>]

\* A variant of total_size that leaves the comment out.
CentralDirectoryHeader_total_size_without_comment(h) ==
    46 + h.file_name_length + h.extra_field_length

CentralDirectoryHeader_total_size(h) ==
    LET central_directory_header_fixed_size == 46
    IN  central_directory_header_fixed_size
            + h.file_name_length
            + h.extra_field_length
            + h.file_comment_length

\* the widths of the fields read after the signature: made by, needed, flags,
\* method, time, date, crc32, compressed, uncompressed, name length, extra
\* length, comment length, disk start, internal attrs, external attrs, offset
CDH_FIELDS == <<2, 2, 2, 2, 2, 2, 4, 4, 4, 2, 2, 2, 2, 2, 4, 4>>

\* CentralDirectoryHeader::read, from the file comment on: f the fixed
\* fields, name, extra and comment the reads
CentralDirectoryHeader_read_comment(f, name, extra, comment) ==
    IF ~comment.ok THEN DecErr(CentralDirectoryHeader_new, comment.err, comment.pos)
    ELSE IF ~IsUtf8(comment.val) THEN DecPanic(CentralDirectoryHeader_new, comment.pos)
    ELSE DecOk([version_made_by |-> f.vals[1],
                version_needed_to_extract |-> f.vals[2],
                general_purpose_bit_flag |-> f.vals[3],
                compression_method |-> f.vals[4],
                last_modified_datetime |-> <<f.vals[5], f.vals[6]>>,
                crc32 |-> f.vals[7],
                compressed_size |-> f.vals[8],
                uncompressed_size |-> f.vals[9],
                file_name_length |-> f.vals[10],
                extra_field_length |-> f.vals[11],
                file_comment_length |-> f.vals[12],
                disk_number_start |-> f.vals[13],
                internal_file_attributes |-> f.vals[14],
                external_file_attributes |-> f.vals[15],
                relative_offset_of_local_header |-> f.vals[16],
                file_name |-> name.val,
                extra_field |-> extra.val,
                file_comment |-> comment.val], comment.pos)

\* ... from the extra field on
CentralDirectoryHeader_read_extra(s, f, name, extra) ==
    IF ~extra.ok THEN DecErr(CentralDirectoryHeader_new, extra.err, extra.pos)
    ELSE CentralDirectoryHeader_read_comment(f, name, extra,
                                             read_exact(s, extra.pos, f.vals[12]))

\* ... from the file name on
CentralDirectoryHeader_read_name(s, f, name) ==
    IF ~name.ok THEN DecErr(CentralDirectoryHeader_new, name.err, name.pos)
    ELSE IF ~IsUtf8(name.val) THEN DecPanic(CentralDirectoryHeader_new, name.pos)
    ELSE CentralDirectoryHeader_read_extra(s, f, name,
                                           read_exact(s, name.pos, f.vals[11]))

\* ... from the fixed fields on
CentralDirectoryHeader_read_fields(s, f) ==
    IF ~f.ok THEN DecErr(CentralDirectoryHeader_new, EndOfFile, f.pos)
    ELSE CentralDirectoryHeader_read_name(s, f, read_exact(s, f.pos, f.vals[10]))

\* ... from the signature on: sig is the read of the first word
CentralDirectoryHeader_read_sig(s, sig) ==
    IF ~sig.ok THEN DecErr(CentralDirectoryHeader_new, sig.err, sig.pos)
    ELSE IF sig.val # CDH_SIGNATURE
    THEN DecErr(CentralDirectoryHeader_new, invalid_signature, sig.pos)
    ELSE CentralDirectoryHeader_read_fields(
             s, ReadFields(s, Fields(sig.pos), CDH_FIELDS))

\* CentralDirectoryHeader::read(r), r at position p of s
CentralDirectoryHeader_read(s, p) ==
    CentralDirectoryHeader_read_sig(s, read_le_u32(s, p))

\* ------------------------------------------------------------------------
\* format.rs: EndOfCentralDirectoryRecord
\* ------------------------------------------------------------------------

\* EndOfCentralDirectoryRecord::new()
EndOfCentralDirectoryRecord_new ==
    [disk_number |-> 0, disk_number_with_start_of_central_directory |-> 0,
     entry_count_this_disk |-> 0, total_entry_count |-> 0,
     central_directory_size |-> <<0, 0>>, central_directory_offset |-> <<0, 0>>,
     comment_length |-> 0, comment |-> <<>>]

\* the widths of the fields read after the signature: disk, disk with start,
\* entries on this disk, entries, directory size, directory offset, comment length
EOCDR_FIELDS == <<2, 2, 2, 2, 4, 4, 2>>

\* EndOfCentralDirectoryRecord::read, from the comment on
EndOfCentralDirectoryRecord_read_comment(f, comment) ==
    IF ~comment.ok
    THEN DecErr(EndOfCentralDirectoryRecord_new, comment.err, comment.pos)
    ELSE IF ~IsUtf8(comment.val)
    THEN DecPanic(EndOfCentralDirectoryRecord_new, comment.pos)
    ELSE DecOk([disk_number |-> f.vals[1],
                disk_number_with_start_of_central_directory |-> f.vals[2],
                entry_count_this_disk |-> f.vals[3],
                total_entry_count |-> f.vals[4],
                central_directory_size |-> f.vals[5],
                central_directory_offset |-> f.vals[6],
                comment_length |-> f.vals[7],
                comment |-> comment.val], comment.pos)

\* ... from the fixed fields on
EndOfCentralDirectoryRecord_read_fields(s, f) ==
    IF ~f.ok THEN DecErr(EndOfCentralDirectoryRecord_new, EndOfFile, f.pos)
    ELSE EndOfCentralDirectoryRecord_read_comment(f, read_exact(s, f.pos, f.vals[7]))

\* ... from the signature on: sig is the read of the first word
EndOfCentralDirectoryRecord_read_sig(s, sig) ==
    IF ~sig.ok THEN DecErr(EndOfCentralDirectoryRecord_new, sig.err, sig.pos)
    ELSE IF sig.val # EOCDR_SIGNATURE
    THEN DecErr(EndOfCentralDirectoryRecord_new, invalid_signature, sig.pos)
    ELSE EndOfCentralDirectoryRecord_read_fields(
             s, ReadFields(s, Fields(sig.pos), EOCDR_FIELDS))

\* EndOfCentralDirectoryRecord::read(r), r at position p of s
EndOfCentralDirectoryRecord_read(s, p) ==
    EndOfCentralDirectoryRecord_read_sig(s, read_le_u32(s, p))

\* ------------------------------------------------------------------------
\* crc32.rs: the CRC-32 of a byte sequence (IEEE 802.3, reflected, polynomial
\* 0xEDB88320, initial value and final xor 0xFFFFFFFF)
\* ------------------------------------------------------------------------

\* w >> 1 on a u32
Shr1(w) == <<(w[1] \div 2) + 32768 * (w[2] % 2), w[2] \div 2>>

\* w >> 8 on a u32
Shr8(w) == <<(w[1] \div 256) + 256 * (w[2] % 256), w[2] \div 256>>

\* one of the eight steps that make an entry of the table
CrcBit(w) ==
    IF w[1] % 2 = 1
    THEN LET x == Shr1(w) IN <<Xor16(x[1], 33568), Xor16(x[2], 60856)>>
    ELSE Shr1(w)

\* the table of the byte-wise algorithm
CrcTable ==
    [n \in 0..255 |->
        CrcBit(CrcBit(CrcBit(CrcBit(CrcBit(CrcBit(CrcBit(CrcBit(<<n, 0>>))))))))]

\* crc = table[(crc ^ b) & 0xFF] ^ (crc >> 8)
CrcByte(w, b) ==
    LET e == CrcTable[Xor16(w[1] % 256, b)]
        x == Shr8(w)
    IN  <<Xor16(e[1], x[1]), Xor16(e[2], x[2])>>

RECURSIVE CrcFold(_, _)
CrcFold(w, bytes) ==
    IF bytes = <<>> THEN w ELSE CrcFold(CrcByte(w, Head(bytes)), Tail(bytes))

crc32(bytes) ==
    LET w == CrcFold(<<65535, 65535>>, bytes)
    IN  <<Xor16(w[1], 65535), Xor16(w[2], 65535)>>

\* ------------------------------------------------------------------------
\* flate::inflate_bytes: raw DEFLATE (RFC 1951).  The input is a sequence of
\* blocks read bit by bit, the bits of a byte from the least significant
\* one; bit i of the input is bit i % 8 of byte i \div 8.  A block starts
\* with the bit BFINAL and the two bits BTYPE: 0 a stored block, 1 a block
\* coded with the fixed Huffman codes, 2 a block coded with Huffman codes the
\* block itself describes, 3 an error.  Bytes behind the final block are not
\* looked at.
\*
\* The library (miniz.c, behind the crate flate) is no part of src/.  On a
\* stream that conforms to RFC 1951 every decoder gives the same bytes.  On
\* other streams decoders differ in three points, and a call of
\* inflate_bytes follows one of the decoders of Inflaters:
\*   - lenient: a Huffman code is accepted when it is complete or has at
\*     most one symbol (of any length), also the code length code, and a
\*     missing code for the end-of-block symbol is not looked for (miniz);
\*     otherwise a code is accepted when it is complete, and a
\*     literal/length or distance code also when it is one symbol of length
\*     1, and the end-of-block symbol must have a code (zlib);
\*   - limited: more than 286 literal/length or 30 distance code lengths
\*     are an error;
\*   - pad: bits read behind the end of the input are 0 (miniz.c 1.14 when
\*     the caller has no more input); otherwise the end of the input within
\*     a block is an error.  A Huffman-coded block that is not at its end
\*     when the padding is reached never ends (the same symbol is decoded
\*     for ever); this is None in the model.
\* In every decoder the length symbols 286 and 287, the distance symbols 30
\* and 31 and bits that are no code are None.
\* ------------------------------------------------------------------------

Strict == [lenient |-> FALSE, limited |-> TRUE, pad |-> FALSE]

LenientLimited == [lenient |-> TRUE, limited |-> TRUE, pad |-> FALSE]

Lenient == [lenient |-> TRUE, limited |-> FALSE, pad |-> FALSE]

LenientPadded == [lenient |-> TRUE, limited |-> FALSE, pad |-> TRUE]

\* the decoders inflate_bytes may be
Inflaters == {Strict, LenientLimited, Lenient, LenientPadded}

NoBytes == [some |-> FALSE, bytes |-> <<>>]

SomeBytes(b) == [some |-> TRUE, bytes |-> b]

\* the outcome of a part of the decoding: the output so far and the position
\* (in bits) behind the part, or its failure
InflatedTo(out, i) == [some |-> TRUE, bytes |-> out, pos |-> i]

NotInflated == [some |-> FALSE, bytes |-> <<>>, pos |-> 0]

\* the n <= 13 bits from bit i on, as a number; bits behind the input are 0
BitsAt(c, i, n) ==
    (((IF i \div 8 < Len(c) THEN c[i \div 8 + 1] ELSE 0)
        + 256 * (IF i \div 8 + 1 < Len(c) THEN c[i \div 8 + 2] ELSE 0)
        + 65536 * (IF i \div 8 + 2 < Len(c) THEN c[i \div 8 + 3] ELSE 0))
       \div Pow2(i % 8)) % Pow2(n)

\* the decoder m may read n bits from bit i on
Available(c, i, n, m) == m.pad \/ i + n <= 8 * Len(c)

\* A Huffman code is given by the code lengths of its symbols: l[s + 1] is
\* the length of the code of symbol s, 0 when s has no code.  The codes of
\* one length are consecutive values, in the order of the symbols, and the
\* first code of a length follows from the number of shorter codes.

\* the number of symbols with a code of length len
CodeCount(l, len) == Cardinality({ s \in 1..Len(l) : l[s] = len })

\* the number of codes of length len left unused, negative once the lengths
\* ask for more codes than there are
CodeLeftStep(left, count) == IF left < 0 THEN left ELSE 2 * left - count

RECURSIVE CodeLeft(_, _)
CodeLeft(l, len) ==
    IF len = 0 THEN 1 ELSE CodeLeftStep(CodeLeft(l, len - 1), CodeCount(l, len))

\* 0 for a complete code (or one of no symbol), negative for an
\* over-subscribed one, positive for an incomplete one
CodeError(l) == IF CodeCount(l, 0) = Len(l) THEN 0 ELSE CodeLeft(l, 15)

\* The decoder m accepts the code length code l: a complete one, and for the
\* lenient decoders also one of at most one symbol.
CodeLengthCodeAllowed(l, m) ==
    \/ CodeError(l) = 0
    \/ m.lenient /\ Len(l) - CodeCount(l, 0) <= 1

\* The decoder m accepts the literal/length or distance code l: a complete
\* one or one of a single symbol, which the strict decoder wants of length 1.
CodeAllowed(l, m) ==
    \/ CodeError(l) = 0
    \/ CodeError(l) > 0 /\ Len(l) = CodeCount(l, 0) + CodeCount(l, 1)
    \/ m.lenient /\ Len(l) - CodeCount(l, 0) <= 1

\* the k-th symbol (from 0) among those with a code of length len
NthSymbol(l, len, k) ==
    CHOOSE s \in 0..(Len(l) - 1) :
        /\ l[s + 1] = len
        /\ Cardinality({ t \in 1..s : l[t] = len }) = k

RECURSIVE Decode(_, _, _, _, _, _, _)
RECURSIVE DecodeBit(_, _, _, _, _, _, _, _)
\* Decode one symbol of the code l from bit i on: len is the length tried,
\* code the bits read so far, first the first code of that length.  sym is
\* -1 when the input ends or the bits are no code.
Decode(c, i, l, len, code, first, m) ==
    IF len > 15 \/ ~Available(c, i, 1, m) THEN [sym |-> -1, pos |-> i]
    ELSE DecodeBit(c, i, l, len, code + BitsAt(c, i, 1), first, CodeCount(l, len), m)

DecodeBit(c, i, l, len, code, first, count, m) ==
    IF code - count < first
    THEN [sym |-> NthSymbol(l, len, code - first), pos |-> i + 1]
    ELSE Decode(c, i + 1, l, len + 1, 2 * code, 2 * (first + count), m)

\* length symbols 257..285: <<base length, extra bits>>
LengthCodes ==
    << <<3, 0>>, <<4, 0>>, <<5, 0>>, <<6, 0>>, <<7, 0>>, <<8, 0>>, <<9, 0>>,
       <<10, 0>>, <<11, 1>>, <<13, 1>>, <<15, 1>>, <<17, 1>>, <<19, 2>>,
       <<23, 2>>, <<27, 2>>, <<31, 2>>, <<35, 3>>, <<43, 3>>, <<51, 3>>,
       <<59, 3>>, <<67, 4>>, <<83, 4>>, <<99, 4>>, <<115, 4>>, <<131, 5>>,
       <<163, 5>>, <<195, 5>>, <<227, 5>>, <<258, 0>> >>

\* distance symbols 0..29: <<base distance, extra bits>>
DistanceCodes ==
    << <<1, 0>>, <<2, 0>>, <<3, 0>>, <<4, 0>>, <<5, 1>>, <<7, 1>>, <<9, 2>>,
       <<13, 2>>, <<17, 3>>, <<25, 3>>, <<33, 4>>, <<49, 4>>, <<65, 5>>,
       <<97, 5>>, <<129, 6>>, <<193, 6>>, <<257, 7>>, <<385, 7>>, <<513, 8>>,
       <<769, 8>>, <<1025, 9>>, <<1537, 9>>, <<2049, 10>>, <<3073, 10>>,
       <<4097, 11>>, <<6145, 11>>, <<8193, 12>>, <<12289, 12>>, <<16385, 13>>,
       <<24577, 13>> >>

RECURSIVE Codes(_, _, _, _, _, _)
RECURSIVE CodesSymbol(_, _, _, _, _, _, _)
RECURSIVE CodesDistance(_, _, _, _, _, _, _)
RECURSIVE CodesCopy(_, _, _, _, _, _, _, _)
\* The symbols of a Huffman-coded block from bit i on, up to the end-of-block
\* symbol 256: ll the literal/length code, dl the distance code, out the
\* output so far.
Codes(c, i, out, ll, dl, m) ==
    CodesSymbol(c, i, out, ll, dl, m, Decode(c, i, ll, 1, 0, 0, m))

\* ... d the literal/length symbol decoded from bit i on
CodesSymbol(c, i, out, ll, dl, m, d) ==
    IF d.sym < 0 THEN NotInflated
    ELSE IF d.sym = 256 THEN InflatedTo(out, d.pos)
    ELSE IF i >= 8 * Len(c) THEN NotInflated
    ELSE IF d.sym < 256 THEN Codes(c, d.pos, Append(out, d.sym), ll, dl, m)
    ELSE IF d.sym > 285 THEN NotInflated
    ELSE IF ~Available(c, d.pos, LengthCodes[d.sym - 256][2], m) THEN NotInflated
    ELSE CodesDistance(
             c, out, ll, dl, m,
             LengthCodes[d.sym - 256][1]
                 + BitsAt(c, d.pos, LengthCodes[d.sym - 256][2]),
             Decode(c, d.pos + LengthCodes[d.sym - 256][2], dl, 1, 0, 0, m))

\* ... len the length of the match, d the distance symbol decoded
CodesDistance(c, out, ll, dl, m, len, d) ==
    IF d.sym < 0 \/ d.sym > 29 THEN NotInflated
    ELSE IF ~Available(c, d.pos, DistanceCodes[d.sym + 1][2], m) THEN NotInflated
    ELSE CodesCopy(c, out, ll, dl, m, len,
                   DistanceCodes[d.sym + 1][1]
                       + BitsAt(c, d.pos, DistanceCodes[d.sym + 1][2]),
                   d.pos + DistanceCodes[d.sym + 1][2])

\* ... the copy of len bytes from dist bytes back, which may overlap itself
CodesCopy(c, out, ll, dl, m, len, dist, i) ==
    IF dist > Len(out) THEN NotInflated
    ELSE Codes(c, i,
               out \o [k \in 1..len |-> out[Len(out) - dist + 1 + ((k - 1) % dist)]],
               ll, dl, m)

\* the fixed codes: literal/length symbols 0..287 and distance symbols 0..29
FixedLengths ==
    [s \in 1..288 |->
        IF s <= 144 THEN 8 ELSE IF s <= 256 THEN 9 ELSE IF s <= 280 THEN 7 ELSE 8]

FixedDistances == [s \in 1..30 |-> 5]

\* A stored block whose LEN stands at byte b: LEN, NLEN (its complement) and
\* LEN bytes.  (With LEN or NLEN padded the two are no complements, or the
\* LEN bytes are not there: the padded decoder fails as the others do.)
Stored(c, b, out) ==
    IF b + 4 > Len(c) THEN NotInflated
    ELSE IF read_le_u16(c, b).val + read_le_u16(c, b + 2).val # 65535
    THEN NotInflated
    ELSE IF b + 4 + read_le_u16(c, b).val > Len(c) THEN NotInflated
    ELSE InflatedTo(out \o SubSeq(c, b + 5, b + 4 + read_le_u16(c, b).val),
                    8 * (b + 4 + read_le_u16(c, b).val))

\* the order in which a block gives the lengths of the code length code
Order == <<16, 17, 18, 0, 8, 7, 9, 6, 10, 5, 11, 4, 12, 3, 13, 2, 14, 1, 15>>

\* the code length code of a block: ncode lengths of 3 bits from bit i on
CodeLengthLengths(c, i, ncode) ==
    [s \in 1..19 |->
        IF \E k \in 1..ncode : Order[k] = s - 1
        THEN BitsAt(c, i + 3 * ((CHOOSE k \in 1..ncode : Order[k] = s - 1) - 1), 3)
        ELSE 0]

RECURSIVE ReadLengths(_, _, _, _, _, _)
RECURSIVE ReadLengthsSymbol(_, _, _, _, _, _)
RECURSIVE ReadLengthsRepeat(_, _, _, _, _, _, _, _)
\* The total code lengths of the literal/length and distance codes, coded
\* with the code length code cl, from bit i on; lengths are those read.
ReadLengths(c, i, cl, lengths, total, m) ==
    IF Len(lengths) = total THEN [ok |-> TRUE, lengths |-> lengths, pos |-> i]
    ELSE ReadLengthsSymbol(c, cl, lengths, total, m, Decode(c, i, cl, 1, 0, 0, m))

\* ... d the symbol decoded: 0..15 a length, 16 repeats the length before 3
\* to 6 times, 17 repeats 0 3 to 10 times, 18 repeats 0 11 to 138 times
ReadLengthsSymbol(c, cl, lengths, total, m, d) ==
    IF d.sym < 0 THEN [ok |-> FALSE, lengths |-> <<>>, pos |-> 0]
    ELSE IF d.sym < 16
    THEN ReadLengths(c, d.pos, cl, Append(lengths, d.sym), total, m)
    ELSE IF d.sym = 16 /\ lengths = <<>>
    THEN [ok |-> FALSE, lengths |-> <<>>, pos |-> 0]
    ELSE IF ~Available(c, d.pos,
                       IF d.sym = 16 THEN 2 ELSE IF d.sym = 17 THEN 3 ELSE 7, m)
    THEN [ok |-> FALSE, lengths |-> <<>>, pos |-> 0]
    ELSE IF d.sym = 16
    THEN ReadLengthsRepeat(c, cl, lengths, total, m, lengths[Len(lengths)],
                           3 + BitsAt(c, d.pos, 2), d.pos + 2)
    ELSE IF d.sym = 17
    THEN ReadLengthsRepeat(c, cl, lengths, total, m, 0,
                           3 + BitsAt(c, d.pos, 3), d.pos + 3)
    ELSE ReadLengthsRepeat(c, cl, lengths, total, m, 0,
                           11 + BitsAt(c, d.pos, 7), d.pos + 7)

ReadLengthsRepeat(c, cl, lengths, total, m, value, n, i) ==
    IF Len(lengths) + n > total THEN [ok |-> FALSE, lengths |-> <<>>, pos |-> 0]
    ELSE ReadLengths(c, i, cl, lengths \o [k \in 1..n |-> value], total, m)

\* a block with its own codes, from the code lengths read on: r the lengths
\* read, the first nlen of the literal/length code
DynamicCodes(c, out, r, nlen, m) ==
    IF ~r.ok THEN NotInflated
    ELSE IF ~m.lenient /\ r.lengths[257] = 0 THEN NotInflated
    ELSE IF ~CodeAllowed(SubSeq(r.lengths, 1, nlen), m) THEN NotInflated
    ELSE IF ~CodeAllowed(SubSeq(r.lengths, nlen + 1, Len(r.lengths)), m)
    THEN NotInflated
    ELSE Codes(c, r.pos, out, SubSeq(r.lengths, 1, nlen),
               SubSeq(r.lengths, nlen + 1, Len(r.lengths)), m)

\* ... from the code length code on
DynamicLengths(c, i, out, nlen, ndist, cl, m) ==
    IF ~CodeLengthCodeAllowed(cl, m) THEN NotInflated
    ELSE DynamicCodes(c, out, ReadLengths(c, i, cl, <<>>, nlen + ndist, m), nlen, m)

\* ... from HLIT, HDIST and HCLEN on
DynamicHeader(c, i, out, nlen, ndist, ncode, m) ==
    IF m.limited /\ (nlen > 286 \/ ndist > 30) THEN NotInflated
    ELSE IF ~Available(c, i, 14 + 3 * ncode, m) THEN NotInflated
    ELSE DynamicLengths(c, i + 14 + 3 * ncode, out, nlen, ndist,
                        CodeLengthLengths(c, i + 14, ncode), m)

\* a block with its own codes, i the bit behind BTYPE
Dynamic(c, i, out, m) ==
    IF ~Available(c, i, 14, m) THEN NotInflated
    ELSE DynamicHeader(c, i, out, BitsAt(c, i, 5) + 257, BitsAt(c, i + 5, 5) + 1,
                       BitsAt(c, i + 10, 4) + 4, m)

\* the block that starts at bit i, by its BTYPE
Block(c, i, out, m) ==
    IF BitsAt(c, i + 1, 2) = 0 THEN Stored(c, (i + 10) \div 8, out)
    ELSE IF BitsAt(c, i + 1, 2) = 1
    THEN Codes(c, i + 3, out, FixedLengths, FixedDistances, m)
    ELSE IF BitsAt(c, i + 1, 2) = 2 THEN Dynamic(c, i + 3, out, m)
    ELSE NotInflated

RECURSIVE InflateFrom(_, _, _, _)
RECURSIVE InflateNext(_, _, _, _)
\* the blocks from bit i on, out the bytes of the blocks before
InflateFrom(c, i, out, m) ==
    IF ~Available(c, i, 3, m) THEN NoBytes
    ELSE InflateNext(c, BitsAt(c, i, 1), Block(c, i, out, m), m)

\* ... final the BFINAL of the block, r what the block gave
InflateNext(c, final, r, m) ==
    IF ~r.some THEN NoBytes
    ELSE IF final = 1 THEN SomeBytes(r.bytes)
    ELSE InflateFrom(c, r.pos, r.bytes, m)

\* flate::inflate_bytes(c) of the decoder m
inflate_bytes(c, m) == InflateFrom(c, 0, <<>>, m)

\* ------------------------------------------------------------------------
\* format.rs: write
\* ------------------------------------------------------------------------

write_le_u16(v) == <<v % 256, v \div 256>>

write_le_u32(w) == write_le_u16(w[1]) \o write_le_u16(w[2])

\* MsdosDateTime::write: the bytes written, the time, then the date
MsdosDateTime_write(dt) == write_le_u16(dt[1]) \o write_le_u16(dt[2])

\* A variant of LocalFileHeader::write that writes the uncompressed size
\* before the compressed size.
LocalFileHeader_write_sizes_swapped(h) ==
    write_le_u32(LFH_SIGNATURE)
        \o write_le_u16(h.version_needed_to_extract)
        \o write_le_u16(h.general_purpose_bit_flag)
        \o write_le_u16(h.compression_method)
        \o MsdosDateTime_write(h.last_modified_datetime)
        \o write_le_u32(h.crc32)
        \o write_le_u32(h.uncompressed_size)
        \o write_le_u32(h.compressed_size)
        \o write_le_u16(h.file_name_length)
        \o write_le_u16(h.extra_field_length)
        \o h.file_name
        \o h.extra_field

\* LocalFileHeader::write: the bytes written
LocalFileHeader_write(h) ==
    write_le_u32(LFH_SIGNATURE)
        \o write_le_u16(h.version_needed_to_extract)
        \o write_le_u16(h.general_purpose_bit_flag)
        \o write_le_u16(h.compression_method)
        \o MsdosDateTime_write(h.last_modified_datetime)
        \o write_le_u32(h.crc32)
        \o write_le_u32(h.compressed_size)
        \o write_le_u32(h.uncompressed_size)
        \o write_le_u16(h.file_name_length)
        \o write_le_u16(h.extra_field_length)
        \o h.file_name
        \o h.extra_field

\* CentralDirectoryHeader::write: the bytes written
CentralDirectoryHeader_write(h) ==
    write_le_u32(CDH_SIGNATURE)
        \o write_le_u16(h.version_made_by)
        \o write_le_u16(h.version_needed_to_extract)
        \o write_le_u16(h.general_purpose_bit_flag)
        \o write_le_u16(h.compression_method)
        \o MsdosDateTime_write(h.last_modified_datetime)
        \o write_le_u32(h.crc32)
        \o write_le_u32(h.compressed_size)
        \o write_le_u32(h.uncompressed_size)
        \o write_le_u16(h.file_name_length)
        \o write_le_u16(h.extra_field_length)
        \o write_le_u16(h.file_comment_length)
        \o write_le_u16(h.disk_number_start)
        \o write_le_u16(h.internal_file_attributes)
        \o write_le_u32(h.external_file_attributes)
        \o write_le_u32(h.relative_offset_of_local_header)
        \o h.file_name
        \o h.extra_field
        \o h.file_comment

\* EndOfCentralDirectoryRecord::write: the bytes written
EndOfCentralDirectoryRecord_write(h) ==
    write_le_u32(EOCDR_SIGNATURE)
        \o write_le_u16(h.disk_number)
        \o write_le_u16(h.disk_number_with_start_of_central_directory)
        \o write_le_u16(h.entry_count_this_disk)
        \o write_le_u16(h.total_entry_count)
        \o write_le_u32(h.central_directory_size)
        \o write_le_u32(h.central_directory_offset)
        \o write_le_u16(h.comment_length)
        \o h.comment

\* ------------------------------------------------------------------------
\* fileinfo.rs: CompressionMethod and FileInfo, the descriptor of an entry
\* ------------------------------------------------------------------------

\* CompressionMethod::from_u16
CompressionMethod_from_u16(m) ==
    IF m = 0 THEN "Store" ELSE IF m = 8 THEN "Deflate" ELSE "Unknown"

NoFileInfo ==
    [name |-> <<>>, compression_method |-> "Store",
     last_modified_datetime |-> <<0, 0>>,
     compressed_size |-> <<0, 0>>, uncompressed_size |-> <<0, 0>>,
     local_file_header_offset |-> <<0, 0>>]

\* FileInfo::from_cdh
FileInfo_from_cdh(h) ==
    [name |-> h.file_name,
     compression_method |-> CompressionMethod_from_u16(h.compression_method),
     last_modified_datetime |-> h.last_modified_datetime,
     compressed_size |-> h.compressed_size,
     uncompressed_size |-> h.uncompressed_size,
     local_file_header_offset |-> h.relative_offset_of_local_header]

\* i.name.equiv(&name): the names are the same bytes
equiv(a, b) == a = b

\* ------------------------------------------------------------------------
\* reader.rs: ZipReader::new
\* ------------------------------------------------------------------------

\* The offsets file_size - i tried by `for i in range_inclusive(4, file_size)`
\* that hold the signature, as the i of each.
ScanHits(s) ==
    { i \in 4..Len(s) : read_le_u32(s, Len(s) - i).val = EOCDR_SIGNATURE }

\* A variant of the scan that goes on to the last hit: the smallest offset.
LastHit(hits) == CHOOSE i \in hits : \A j \in hits : i >= j

\* the loop breaks at the first i, in increasing order, that is a hit
FirstHit(hits) == CHOOSE i \in hits : \A j \in hits : i <= j

\* The scan of ZipReader::new: the offset found (-1: None) and the position
\* the stream is left at: behind the last word read, or at the end when
\* none was read.
ScanForEndRecord(s) ==
    IF ScanHits(s) = {}
    THEN [offset |-> -1, pos |-> IF Len(s) >= 4 THEN 4 ELSE Len(s)]
    ELSE [offset |-> Len(s) - FirstHit(ScanHits(s)),
          pos |-> Len(s) - FirstHit(ScanHits(s)) + 4]

\* ZipReader::new, from `match end_record_offset` on
ZipReader_new_match(s, found) ==
    IF found.offset = -1
    THEN [tag |-> "Err", end_record |-> EndOfCentralDirectoryRecord_new,
          end_record_offset |-> -1, err |-> NotAZipFile, pos |-> found.pos]
    ELSE [tag |-> EndOfCentralDirectoryRecord_read(s, found.offset).tag,
          end_record |-> EndOfCentralDirectoryRecord_read(s, found.offset).h,
          end_record_offset |-> found.offset,
          err |-> EndOfCentralDirectoryRecord_read(s, found.offset).err,
          pos |-> EndOfCentralDirectoryRecord_read(s, found.offset).pos]

\* ZipReader::new(reader): tag "Ok" (a reader with end_record), "Err" or
\* "Panic"; end_record_offset is the local of that name (-1: None)
ZipReader_new(s) == ZipReader_new_match(s, ScanForEndRecord(s))

\* what File::open(path) fails with when the file cannot be opened
OpenErrors ==
    { IoError("FileNotFound", "no such file or directory"),
      IoError("PermissionDenied", "permission denied") }

\* ZipReader::open(path): opened is the outcome of File::open(path), ok with
\* the file of the bytes s, or the error err
ZipReader_open(opened) ==
    IF ~opened.ok
    THEN [tag |-> "Err", end_record |-> EndOfCentralDirectoryRecord_new,
          end_record_offset |-> -1, err |-> try_io(opened.err), pos |-> 0]
    ELSE ZipReader_new(opened.s)

\* ------------------------------------------------------------------------
\* reader.rs: Files, the iterator over the central directory
\* ------------------------------------------------------------------------

\* Option<Result<FileInfo, ZipError>>, or the failure of the task
None == [tag |-> "None", info |-> NoFileInfo, err |-> NoError]

SomeOk(info) == [tag |-> "SomeOk", info |-> info, err |-> NoError]

SomeErr(e) == [tag |-> "SomeErr", info |-> NoFileInfo, err |-> e]

Panicked == [tag |-> "Panic", info |-> NoFileInfo, err |-> NoError]

\* ZipReader::files_raw
ZipReader_files_raw(end_record) ==
    [current_entry |-> 0,
     current_offset |-> AsUint(end_record.central_directory_offset)]

\* Files::next, from the header read on: d is the outcome of the read
Files_next_header(it, d) ==
    IF d.tag = "Err" THEN [res |-> SomeErr(d.err), it |-> it, pos |-> d.pos]
    ELSE IF d.tag = "Panic" THEN [res |-> Panicked, it |-> it, pos |-> d.pos]
    ELSE [res |-> SomeOk(FileInfo_from_cdh(d.h)),
          it |-> [current_entry |-> it.current_entry + 1,
                  current_offset |->
                      it.current_offset + CentralDirectoryHeader_total_size(d.h)],
          pos |-> d.pos]

\* A variant of Files::next that compares with <= and so reads one header more.
Files_next_inclusive(s, end_record, it, p) ==
    IF it.current_entry <= end_record.total_entry_count
    THEN Files_next_header(it,
             CentralDirectoryHeader_read(s, seek(p, it.current_offset)))
    ELSE [res |-> None, it |-> it, pos |-> p]

\* Files::next: the element returned, the iterator and the stream position after
Files_next(s, end_record, it, p) ==
    IF it.current_entry < end_record.total_entry_count
    THEN Files_next_header(it,
             CentralDirectoryHeader_read(s, seek(p, it.current_offset)))
    ELSE [res |-> None, it |-> it, pos |-> p]

\* Option<FileInfo> of the iterator of files()
Some(info) == [tag |-> "Some", info |-> info, err |-> NoError]

\* Option<MaybeUTF8> of the iterator of file_names(): the name is held in the
\* field name of info, the other fields of info are not part of the value
SomeName(name) ==
    [tag |-> "SomeName", info |-> [NoFileInfo EXCEPT !.name = name], err |-> NoError]

\* the closure of files(): fileinfo_or_err.unwrap()
ZipReader_files_closure(res) ==
    IF res.tag = "SomeOk" THEN Some(res.info)
    ELSE IF res.tag = "SomeErr" THEN Panicked
    ELSE res

\* the closure of file_names(): fileinfo_or_err.unwrap().name
ZipReader_file_names_closure(res) ==
    IF res.tag = "SomeOk" THEN SomeName(res.info.name)
    ELSE IF res.tag = "SomeErr" THEN Panicked
    ELSE res

\* next() of the iterator of files_raw() ("raw"), of files() ("files") or of
\* file_names() ("file_names"): n is what Files::next gave, and Map::next
\* applies the closure to the element
Map_next(map, n) ==
    [res |-> IF map = "files" THEN ZipReader_files_closure(n.res)
             ELSE IF map = "file_names" THEN ZipReader_file_names_closure(n.res)
             ELSE n.res,
     it |-> n.it, pos |-> n.pos]

\* ------------------------------------------------------------------------
\* reader.rs: ZipReader::info
\* ------------------------------------------------------------------------

\* Result<FileInfo, ZipError>, or the failure of the task
InfoOk(i, p) == [tag |-> "Ok", info |-> i, err |-> NoError, pos |-> p]

InfoErr(e, p) == [tag |-> "Err", info |-> NoFileInfo, err |-> e, pos |-> p]

InfoPanic(p) == [tag |-> "Panic", info |-> NoFileInfo, err |-> NoError, pos |-> p]

RECURSIVE InfoLoop(_, _, _, _)
\* for i in self.files(): files() unwraps every element of files_raw(); n is
\* what next() gave
InfoLoop(s, end_record, n, name) ==
    IF n.res.tag = "None" THEN InfoErr(FileNotFoundInArchive, n.pos)
    ELSE IF n.res.tag # "SomeOk" THEN InfoPanic(n.pos)
    ELSE IF equiv(n.res.info.name, name) THEN InfoOk(n.res.info, n.pos)
    ELSE InfoLoop(s, end_record, Files_next(s, end_record, n.it, n.pos), name)

ZipReader_info(s, end_record, p, name) ==
    InfoLoop(s, end_record,
             Files_next(s, end_record, ZipReader_files_raw(end_record), p), name)

\* ------------------------------------------------------------------------
\* reader.rs: ZipReader::read and extract
\* ------------------------------------------------------------------------

\* IoResult<Vec<u8>>, or the failure of the task
BytesOk(b, p) == [tag |-> "Ok", bytes |-> b, err |-> NoError, pos |-> p]

BytesErr(e, p) == [tag |-> "Err", bytes |-> <<>>, err |-> e, pos |-> p]

BytesPanic(p) == [tag |-> "Panic", bytes |-> <<>>, err |-> NoError, pos |-> p]

\* read_stored_file, r the read_exact
read_stored_file_result(r) ==
    IF r.ok THEN BytesOk(r.val, r.pos) ELSE BytesErr(r.err, r.pos)

\* read_stored_file(pos, uncompressed_size), the reader at position p
read_stored_file(s, p, pos, uncompressed_size) ==
    read_stored_file_result(read_exact(s, seek(p, pos), AsUint(uncompressed_size)))

\* read_deflated_file, from the match on inflate_bytes on
read_deflated_file_inflated(inflated, p, uncompressed_size) ==
    IF ~inflated.some
    THEN BytesErr(IoError("InvalidInput", "decompression failure"), p)
    ELSE IF U32(Len(inflated.bytes)) # uncompressed_size THEN BytesPanic(p)
    ELSE BytesOk(inflated.bytes, p)

\* read_deflated_file, r the read_exact of the compressed bytes
read_deflated_file_read(r, uncompressed_size, flate) ==
    IF ~r.ok THEN BytesErr(r.err, r.pos)
    ELSE read_deflated_file_inflated(inflate_bytes(r.val, flate), r.pos,
                                     uncompressed_size)

\* read_deflated_file(pos, compressed_size, uncompressed_size), the reader at
\* position p
read_deflated_file(s, p, pos, compressed_size, uncompressed_size, flate) ==
    read_deflated_file_read(read_exact(s, seek(p, pos), AsUint(compressed_size)),
                            uncompressed_size, flate)

\* A variant of ZipReader::read that returns the bytes without the CRC check.
ZipReader_read_result_unchecked(h, result) ==
    IF result.tag = "Err" THEN BytesErr(try_io(result.err), result.pos)
    ELSE IF result.tag = "Panic" THEN result
    ELSE BytesOk(result.bytes, result.pos)

\* ZipReader::read, from try_io!(result) on: h the local header
ZipReader_read_result(h, result) ==
    IF result.tag = "Err" THEN BytesErr(try_io(result.err), result.pos)
    ELSE IF result.tag = "Panic" THEN result
    ELSE IF crc32(result.bytes) = h.crc32 THEN BytesOk(result.bytes, result.pos)
    ELSE BytesErr(CrcError, result.pos)

\* ZipReader::read, the match on the compression method; p is the position
\* of the reader, behind the local header
ZipReader_read_method(s, h, file_offset, p, method, flate) ==
    IF method = "Store"
    THEN ZipReader_read_result(h, read_stored_file(s, p, file_offset,
                                                   h.uncompressed_size))
    ELSE IF method = "Deflate"
    THEN ZipReader_read_result(h, read_deflated_file(s, p, file_offset,
                                                     h.compressed_size,
                                                     h.uncompressed_size, flate))
    ELSE BytesPanic(p)

\* ZipReader::read, from the local header read on: d its outcome
ZipReader_read_header(s, offset, d, flate) ==
    IF d.tag = "Err" THEN BytesErr(d.err, d.pos)
    ELSE IF d.tag = "Panic" THEN BytesPanic(d.pos)
    ELSE ZipReader_read_method(s, d.h, offset + LocalFileHeader_total_size(d.h), d.pos,
                               CompressionMethod_from_u16(d.h.compression_method),
                               flate)

\* ZipReader::read(f), the reader at position p
ZipReader_read(s, f, p, flate) ==
    ZipReader_read_header(s, AsUint(f.local_file_header_offset),
        LocalFileHeader_read(s, seek(p, AsUint(f.local_file_header_offset))),
        flate)

\* ZipReader::extract, the match on self.read(f): written are the bytes the
\* writer holds before, and in the result those it holds afterwards
ZipReader_extract_match(r, written) ==
    [tag |-> r.tag, bytes |-> <<>>, err |-> r.err, pos |-> r.pos,
     written |-> IF r.tag = "Ok" THEN written \o r.bytes ELSE written]

\* ZipReader::extract(f, writer), the reader at position p
ZipReader_extract(s, f, p, written, flate) ==
    ZipReader_extract_match(ZipReader_read(s, f, p, flate), written)

\* ------------------------------------------------------------------------
\* The streams the reader is run on: archives laid out as APPNOTE.TXT 4.3.6
\* says (local headers and data, central directory, end record), written
\* with the write operations above, whole or with one bit flipped; and a few
\* streams that are no archives.
\* ------------------------------------------------------------------------

\* the raw DEFLATE of a payload as stored blocks of one byte, the last final
RECURSIVE StoredBlocks(_)
StoredBlocks(payload) ==
    IF payload = <<>> THEN <<1, 0, 0, 255, 255>>
    ELSE IF Len(payload) = 1 THEN <<1, 1, 0, 254, 255, payload[1]>>
    ELSE <<0, 1, 0, 254, 255, payload[1]>> \o StoredBlocks(Tail(payload))

\* entries: "a" stored, "b" deflated (UTF-8 flag, extra fields, a comment),
\* a second "a", and "m" of method 12
EntryA ==
    [name |-> <<97>>, method |-> 0, flags |-> 0, payload |-> <<7, 9>>,
     data |-> <<7, 9>>, extra |-> <<>>, cextra |-> <<>>, comment |-> <<>>]

EntryB ==
    [name |-> <<98>>, method |-> 8, flags |-> 2048, payload |-> <<5, 6>>,
     data |-> StoredBlocks(<<5, 6>>), extra |-> <<1>>, cextra |-> <<2, 3>>,
     comment |-> <<99>>]

EntryA2 ==
    [name |-> <<97>>, method |-> 0, flags |-> 0, payload |-> <<3>>,
     data |-> <<3>>, extra |-> <<>>, cextra |-> <<>>, comment |-> <<>>]

EntryM ==
    [name |-> <<109>>, method |-> 12, flags |-> 0, payload |-> <<4>>,
     data |-> <<4>>, extra |-> <<>>, cextra |-> <<>>, comment |-> <<>>]

\* Entries whose compressed bytes do not conform to RFC 1951, and inflate
\* or not with the decoder.  "t": a block of the fixed codes, the literal 97
\* and the first 5 of the 7 bits of the end-of-block code, where the input
\* ends.  "d": a block with its own codes, the literal/length code being the
\* end-of-block symbol alone with a code of length 2, and that code.
EntryT ==
    [name |-> <<116>>, method |-> 8, flags |-> 0, payload |-> <<97>>,
     data |-> <<75, 4>>, extra |-> <<>>, cextra |-> <<>>, comment |-> <<>>]

EntryD ==
    [name |-> <<100>>, method |-> 8, flags |-> 0, payload |-> <<>>,
     data |-> <<5, 128, 129, 8, 0, 0, 0, 128, 252, 173, 15>>,
     extra |-> <<>>, cextra |-> <<>>, comment |-> <<>>]

LocalHeaderOf(e) ==
    [version_needed_to_extract |-> 20, general_purpose_bit_flag |-> e.flags,
     compression_method |-> e.method, last_modified_datetime |-> <<0, 33>>,
     crc32 |-> crc32(e.payload), compressed_size |-> U32(Len(e.data)),
     uncompressed_size |-> U32(Len(e.payload)),
     file_name_length |-> Len(e.name), extra_field_length |-> Len(e.extra),
     file_name |-> e.name, extra_field |-> e.extra]

CentralHeaderOf(e, offset) ==
    [version_made_by |-> 20, version_needed_to_extract |-> 20,
     general_purpose_bit_flag |-> e.flags, compression_method |-> e.method,
     last_modified_datetime |-> <<0, 33>>, crc32 |-> crc32(e.payload),
     compressed_size |-> U32(Len(e.data)), uncompressed_size |-> U32(Len(e.payload)),
     file_name_length |-> Len(e.name), extra_field_length |-> Len(e.cextra),
     file_comment_length |-> Len(e.comment), disk_number_start |-> 0,
     internal_file_attributes |-> 0, external_file_attributes |-> <<0, 0>>,
     relative_offset_of_local_header |-> U32(offset),
     file_name |-> e.name, extra_field |-> e.cextra, file_comment |-> e.comment]

RECURSIVE LocalPart(_)
LocalPart(es) ==
    IF es = <<>> THEN <<>>
    ELSE LocalPart(SubSeq(es, 1, Len(es) - 1))
             \o LocalFileHeader_write(LocalHeaderOf(es[Len(es)])) \o es[Len(es)].data

LocalOffset(es, k) == Len(LocalPart(SubSeq(es, 1, k - 1)))

RECURSIVE CentralPartTo(_, _)
CentralPartTo(es, n) ==
    IF n = 0 THEN <<>>
    ELSE CentralPartTo(es, n - 1)
             \o CentralDirectoryHeader_write(CentralHeaderOf(es[n], LocalOffset(es, n)))

CentralOffset(es, k) == Len(LocalPart(es)) + Len(CentralPartTo(es, k - 1))

EndOffset(es) == Len(LocalPart(es)) + Len(CentralPartTo(es, Len(es)))

Archive(es, comment) ==
    LocalPart(es) \o CentralPartTo(es, Len(es))
        \o EndOfCentralDirectoryRecord_write(
               [disk_number |-> 0, disk_number_with_start_of_central_directory |-> 0,
                entry_count_this_disk |-> Len(es), total_entry_count |-> Len(es),
                central_directory_size |-> U32(Len(CentralPartTo(es, Len(es)))),
                central_directory_offset |-> U32(Len(LocalPart(es))),
                comment_length |-> Len(comment), comment |-> comment])

\* the entry lists of the archives
EntryLists ==
    { <<>>, <<EntryA>>, <<EntryB>>, <<EntryM>>, <<EntryA, EntryB>>,
      <<EntryA, EntryB, EntryA2>> }

\* The bits flipped: <<offset, bit>>.  In the local header of an archive of
\* one entry: bit 0 of the signature, the method, the crc, the sizes and the
\* name length, every bit of the flag word and of the data.
LocalFlipSites(es) ==
    IF Len(es) # 1 THEN {}
    ELSE { <<o, 0>> : o \in {0, 8, 14, 18, 22, 26} }
           \cup { <<o, b>> : o \in {6, 7}, b \in 0..7 }
           \cup { <<LocalFileHeader_total_size(LocalHeaderOf(es[1])) + o, b>> :
                    o \in 0..(Len(es[1].data) - 1), b \in 0..7 }

\* In every central header: bit 0 of the signature, the name length and the
\* local header offset, bits 0 and 7 of the name.  In the end record: bit 0
\* of the signature, the entry count, the directory offset and the comment
\* length.
CentralFlipSites(es) ==
    UNION { { <<CentralOffset(es, k) + o, 0>> : o \in {0, 28, 42, 46} }
              \cup { <<CentralOffset(es, k) + 46, 7>> }
          : k \in 1..Len(es) }
      \cup { <<EndOffset(es) + o, 0>> : o \in {0, 10, 16, 20} }

FlipSites(es) == LocalFlipSites(es) \cup CentralFlipSites(es)

Flip(s, site) ==
    [s EXCEPT ![site[1] + 1] =
        IF Bit(@, site[2]) = 1 THEN @ - Pow2(site[2]) ELSE @ + Pow2(site[2])]

\* an end record in the comment of the end record; the signature alone in it
NestedArchives ==
    { Archive(<<EntryA>>, Archive(<<>>, <<>>)), Archive(<<EntryA>>, <<80, 75, 5, 6>>) }

\* streams that are no archives
OtherStreams ==
    { <<>>, <<80>>, <<80, 75, 5>>, <<80, 75, 5, 6>>, <<80, 75, 5, 6, 0>>,
      <<1, 2, 3, 4, 5>>, <<80, 75, 3, 4, 80, 75, 1, 2>> }

\* the archives as written, without a comment
PlainArchives ==
    { Archive(es, <<>>) : es \in EntryLists } \cup { Archive(<<EntryT, EntryD>>, <<>>) }

Streams ==
    PlainArchives
      \cup UNION { { Flip(Archive(es, <<>>), site) : site \in FlipSites(es) }
                  : es \in EntryLists }
      \cup NestedArchives
      \cup OtherStreams

\* the offsets the decoders are tried at: where a signature's second
\* byte 'K' stands one byte on, the offsets next to those, and the end
ProbeOffsets(s) ==
    { o \in 0..Len(s) :
        \/ o >= Len(s) - 3
        \/ s[o + 2] = 75
        \/ s[o + 1] = 75 }

\* the names looked up: "a", "b", "z"
Names == { <<97>>, <<98>>, <<122>> }

\* what the writer handed to extract holds before the call
WriterContents == { <<42>> }

\* ------------------------------------------------------------------------
\* The state machine
\* ------------------------------------------------------------------------

VARIABLES
    stream,             \* the bytes of the underlying reader; never written
    pos,                \* the position of the underlying reader
    phase,              \* "raw": the caller owns the reader; "open": a ZipReader
                        \* owns it; "failed": ZipReader::new returned an error;
                        \* "panicked": the task failed
    end_record,         \* ZipReader.end_record
    end_record_offset,  \* the local end_record_offset of ZipReader::new (-1: None)
    files,              \* the Files iterator: alive, current_entry, current_offset
    yielded,            \* what the calls of next() on it returned, in order
    last,               \* the last call on the ZipReader and what it returned
                        \* (op "new" also for the new that open called, "open"
                        \* for an open that could not open the file)
    dec,                \* the record the caller decoded and the outcome
    codec               \* a record or timestamp handed to the codec alone, and
                        \* what writing it and reading it back gave

vars ==
    <<stream, pos, phase, end_record, end_record_offset, files, yielded, last, dec,
      codec>>

NoFiles == [alive |-> FALSE, map |-> "raw", current_entry |-> 0, current_offset |-> 0]

NoLast ==
    [op |-> "none", tag |-> "", err |-> NoError, info |-> NoFileInfo,
     bytes |-> <<>>, name |-> <<>>, f |-> NoFileInfo,
     before |-> <<>>, written |-> <<>>]

NoDec == [kind |-> "none", offset |-> 0, tag |-> "", err |-> NoError, pos |-> 0]

NoCodec == [kind |-> "none", done |-> FALSE]

Init ==
    /\ stream \in Streams
    /\ pos = 0
    /\ phase = "raw"
    /\ end_record = EndOfCentralDirectoryRecord_new
    /\ end_record_offset = -1
    /\ files = NoFiles
    /\ yielded = <<>>
    /\ last = NoLast
    /\ dec = NoDec
    /\ codec = NoCodec

\* a panic ends the task
AfterTag(tag) == IF tag = "Panic" THEN "panicked" ELSE phase

\* The caller seeks to an offset and decodes a record of the kind there; d is
\* the outcome.  (The caller decodes one record, if any, before it hands the
\* reader over.)
Decoded(kind, offset, d) ==
    /\ phase = "raw"
    /\ dec.kind = "none"
    /\ dec' = [kind |-> kind, offset |-> offset, tag |-> d.tag, err |-> d.err,
               pos |-> d.pos, h |-> d.h]
    /\ pos' = d.pos
    /\ phase' = AfterTag(d.tag)
    /\ UNCHANGED <<stream, end_record, end_record_offset, files, yielded, last, codec>>

DecodeMsdosDateTime(offset) ==
    Decoded("datetime", offset, MsdosDateTime_read(stream, offset))

DecodeLocalFileHeader(offset) ==
    Decoded("lfh", offset, LocalFileHeader_read(stream, offset))

DecodeCentralDirectoryHeader(offset) ==
    Decoded("cdh", offset, CentralDirectoryHeader_read(stream, offset))

DecodeEndOfCentralDirectoryRecord(offset) ==
    Decoded("eocdr", offset, EndOfCentralDirectoryRecord_read(stream, offset))

\* ZipReader::new(reader)
New ==
    /\ phase = "raw"
    /\ \E r \in {ZipReader_new(stream)} :
        /\ phase' = (IF r.tag = "Ok" THEN "open"
                     ELSE IF r.tag = "Err" THEN "failed" ELSE "panicked")
        /\ end_record' = r.end_record
        /\ end_record_offset' = r.end_record_offset
        /\ pos' = r.pos
        /\ last' = [NoLast EXCEPT !.op = "new", !.tag = r.tag, !.err = r.err]
    /\ dec' = NoDec
    /\ UNCHANGED <<stream, files, yielded, codec>>

\* ZipReader::open(path): the file of the path cannot be opened, or it is
\* opened and holds the bytes of stream
Open ==
    /\ phase = "raw"
    /\ \E opened \in { [ok |-> TRUE, s |-> stream, err |-> NoError] }
                        \cup { [ok |-> FALSE, s |-> <<>>, err |-> e] : e \in OpenErrors } :
        \E r \in {ZipReader_open(opened)} :
            /\ phase' = (IF r.tag = "Ok" THEN "open"
                         ELSE IF r.tag = "Err" THEN "failed" ELSE "panicked")
            /\ end_record' = r.end_record
            /\ end_record_offset' = r.end_record_offset
            /\ pos' = r.pos
            /\ last' = [NoLast EXCEPT !.op = IF opened.ok THEN "new" ELSE "open",
                                      !.tag = r.tag, !.err = r.err]
    /\ dec' = NoDec
    /\ UNCHANGED <<stream, files, yielded, codec>>

\* A new iterator over the central directory; the one before it is gone.
\* map says which: "raw" the Files of files_raw(), "files" and "file_names"
\* the Map over it of files() and file_names().
NewIterator(map) ==
    /\ phase = "open"
    /\ files' = [alive |-> TRUE, map |-> map,
                 current_entry |-> ZipReader_files_raw(end_record).current_entry,
                 current_offset |-> ZipReader_files_raw(end_record).current_offset]
    /\ yielded' = <<>>
    /\ last' = [NoLast EXCEPT !.op = IF map = "raw" THEN "files_raw" ELSE map,
                              !.tag = "Ok"]
    /\ UNCHANGED <<stream, pos, phase, end_record, end_record_offset, dec, codec>>

\* zip.files_raw()
FilesRaw == NewIterator("raw")

\* zip.files()
Files == NewIterator("files")

\* zip.file_names()
FileNames == NewIterator("file_names")

\* it.next() on the iterator: Files::next, under Map::next for files() and
\* file_names()
Next_ ==
    /\ phase = "open"
    /\ files.alive
    /\ Len(yielded) < MaxNextCalls
    /\ \E n \in {Map_next(files.map,
                          Files_next(stream, end_record,
                                     [current_entry |-> files.current_entry,
                                      current_offset |-> files.current_offset],
                                     pos))} :
        /\ files' = [alive |-> TRUE, map |-> files.map,
                     current_entry |-> n.it.current_entry,
                     current_offset |-> n.it.current_offset]
        /\ yielded' = Append(yielded, n.res)
        /\ pos' = n.pos
        /\ phase' = AfterTag(n.res.tag)
        /\ last' = [NoLast EXCEPT !.op = "next", !.tag = n.res.tag,
                                  !.err = n.res.err, !.info = n.res.info]
    /\ UNCHANGED <<stream, end_record, end_record_offset, dec, codec>>

\* zip.info(name); the iterator borrowed the ZipReader and is gone by now
Info(name) ==
    /\ phase = "open"
    /\ \E r \in {ZipReader_info(stream, end_record, pos, name)} :
        /\ last' = [NoLast EXCEPT !.op = "info", !.tag = r.tag, !.err = r.err,
                                  !.info = r.info, !.name = name]
        /\ pos' = r.pos
        /\ phase' = AfterTag(r.tag)
    /\ files' = [files EXCEPT !.alive = FALSE]
    /\ UNCHANGED <<stream, end_record, end_record_offset, yielded, dec, codec>>

\* the descriptors the caller holds: those the iterator of files_raw() or
\* files() yielded, the one info returned
Held ==
    { yielded[k].info :
        k \in { j \in 1..Len(yielded) : yielded[j].tag \in {"SomeOk", "Some"} } }
      \cup (IF last.op = "info" /\ last.tag = "Ok" THEN {last.info} ELSE {})

\* zip.read(f); inflate_bytes, if the read calls it, is one of the decoders
Read(f) ==
    /\ phase = "open"
    /\ \E flate \in Inflaters : \E r \in {ZipReader_read(stream, f, pos, flate)} :
        /\ last' = [NoLast EXCEPT !.op = "read", !.tag = r.tag, !.err = r.err,
                                  !.bytes = r.bytes, !.f = f]
        /\ pos' = r.pos
        /\ phase' = AfterTag(r.tag)
    /\ files' = [files EXCEPT !.alive = FALSE]
    /\ UNCHANGED <<stream, end_record, end_record_offset, yielded, dec, codec>>

\* zip.extract(f, writer), the writer holding the bytes `before`
Extract(f, before) ==
    /\ phase = "open"
    /\ \E flate \in Inflaters :
       \E r \in {ZipReader_extract(stream, f, pos, before, flate)} :
        /\ last' = [NoLast EXCEPT !.op = "extract", !.tag = r.tag, !.err = r.err,
                                  !.f = f, !.before = before, !.written = r.written]
        /\ pos' = r.pos
        /\ phase' = AfterTag(r.tag)
    /\ files' = [files EXCEPT !.alive = FALSE]
    /\ UNCHANGED <<stream, end_record, end_record_offset, yielded, dec, codec>>

Next ==
    \/ \E offset \in ProbeOffsets(stream) : DecodeMsdosDateTime(offset)
    \/ \E offset \in ProbeOffsets(stream) : DecodeLocalFileHeader(offset)
    \/ \E offset \in ProbeOffsets(stream) : DecodeCentralDirectoryHeader(offset)
    \/ \E offset \in ProbeOffsets(stream) : DecodeEndOfCentralDirectoryRecord(offset)
    \/ New
    \/ Open
    \/ FilesRaw
    \/ Files
    \/ FileNames
    \/ Next_
    \/ \E name \in Names : Info(name)
    \/ \E f \in Held : Read(f)
    \/ \E f \in Held, before \in WriterContents : Extract(f, before)

Spec == Init /\ [][Next]_vars

\* ------------------------------------------------------------------------
\* The codec alone: a record is written to an empty writer with write and
\* read back with read from the start of the bytes written.
\* ------------------------------------------------------------------------

\* flag words: none, each flag alone, all
CodecFlags == {0, 65535} \cup { Pow2(k) : k \in 0..15 }

\* u32 values, low and high half apart
CodecWords == { <<0, 0>>, <<513, 65535>> }

\* names and comments (Strings, so UTF-8): "", "a", "\u{e9}b"
CodecStrings == { <<>>, <<97>>, <<195, 169, 98>> }

\* extra fields
CodecExtras == { <<>>, <<0, 255>> }

\* time and date
CodecDateTimes == { <<0, 0>>, <<65535, 33>> }

LocalFileHeaders ==
    { [version_needed_to_extract |-> 20, general_purpose_bit_flag |-> fl,
       compression_method |-> m, last_modified_datetime |-> dt,
       crc32 |-> w, compressed_size |-> <<7, 0>>, uncompressed_size |-> w,
       file_name_length |-> Len(n), extra_field_length |-> Len(x),
       file_name |-> n, extra_field |-> x] :
        fl \in CodecFlags, m \in {0, 8}, dt \in CodecDateTimes, w \in CodecWords,
        n \in CodecStrings, x \in CodecExtras }

CentralDirectoryHeaders ==
    { [version_made_by |-> 798, version_needed_to_extract |-> 20,
       general_purpose_bit_flag |-> fl, compression_method |-> 8,
       last_modified_datetime |-> dt, crc32 |-> w,
       compressed_size |-> <<7, 0>>, uncompressed_size |-> w,
       file_name_length |-> Len(n), extra_field_length |-> Len(x),
       file_comment_length |-> Len(c), disk_number_start |-> 1,
       internal_file_attributes |-> 256, external_file_attributes |-> w,
       relative_offset_of_local_header |-> <<w[2], w[1]>>,
       file_name |-> n, extra_field |-> x, file_comment |-> c] :
        fl \in {0, 8, 2048, 8192, 65535}, dt \in CodecDateTimes, w \in CodecWords,
        n \in CodecStrings, x \in CodecExtras, c \in CodecStrings }

EndOfCentralDirectoryRecords ==
    { [disk_number |-> d, disk_number_with_start_of_central_directory |-> 0,
       entry_count_this_disk |-> n, total_entry_count |-> 65535 - n,
       central_directory_size |-> w, central_directory_offset |-> <<w[2], w[1]>>,
       comment_length |-> Len(c), comment |-> c] :
        d \in {0, 258}, n \in {0, 1, 65535}, w \in CodecWords, c \in CodecStrings }

\* the hours, minutes and seconds: every two of them over their whole
\* ranges, the third at either end of its range
TimeArguments ==
    { <<h, mi, s>> : h \in {0, 31}, mi \in 0..63, s \in 0..63 }
      \cup { <<h, mi, s>> : h \in 0..31, mi \in {0, 63}, s \in 0..63 }
      \cup { <<h, mi, s>> : h \in 0..31, mi \in 0..63, s \in {0, 63} }

\* the years, months and days, likewise
DateArguments ==
    { <<y, mo, d>> : y \in {1980, 2107}, mo \in 0..15, d \in 0..31 }
      \cup { <<y, mo, d>> : y \in 1980..2107, mo \in {0, 15}, d \in 0..31 }
      \cup { <<y, mo, d>> : y \in 1980..2107, mo \in 0..15, d \in {0, 31} }

\* The arguments of MsdosDateTime::new: the dates with the time fields at
\* either end of their ranges, the times with the date fields at either end
\* of theirs.
DateTimeArguments ==
    { <<a[1], a[2], a[3], e[1], e[2], e[3]>> :
        a \in DateArguments, e \in { <<0, 0, 0>>, <<31, 63, 63>> } }
      \cup { <<e[1], e[2], e[3], a[1], a[2], a[3]>> :
        a \in TimeArguments, e \in { <<1980, 0, 0>>, <<2107, 15, 31>> } }

\* packed timestamps: time and date
MsdosDateTimes ==
    { <<t, d>> : t \in {0, 1, 255, 256, 513, 65535}, d \in {0, 33, 1027, 65280} }

InitCodec ==
    /\ stream = <<>>
    /\ pos = 0
    /\ phase = "raw"
    /\ end_record = EndOfCentralDirectoryRecord_new
    /\ end_record_offset = -1
    /\ files = NoFiles
    /\ yielded = <<>>
    /\ last = NoLast
    /\ dec = NoDec
    /\ \/ \E h \in LocalFileHeaders : codec = [kind |-> "lfh", done |-> FALSE, h |-> h]
       \/ \E h \in CentralDirectoryHeaders : codec = [kind |-> "cdh", done |-> FALSE, h |-> h]
       \/ \E h \in EndOfCentralDirectoryRecords :
              codec = [kind |-> "eocdr", done |-> FALSE, h |-> h]
       \/ \E a \in DateTimeArguments :
              codec = [kind |-> "datetime", done |-> FALSE, h |-> a]
       \/ \E dt \in MsdosDateTimes :
              codec = [kind |-> "packed", done |-> FALSE, h |-> dt]

\* the record written, then read from the bytes written (for a timestamp:
\* packed by new, then taken apart by to_tuple)
WrittenAndRead(bytes, back) ==
    /\ ~codec.done
    /\ codec' = [kind |-> codec.kind, done |-> TRUE, h |-> codec.h,
                 bytes |-> bytes, back |-> back]
    /\ UNCHANGED <<stream, pos, phase, end_record, end_record_offset, files, yielded,
                   last, dec>>

WriteReadLocalFileHeader ==
    /\ codec.kind = "lfh"
    /\ \E bytes \in {LocalFileHeader_write(codec.h)} :
           WrittenAndRead(bytes, LocalFileHeader_read(bytes, 0))

WriteReadCentralDirectoryHeader ==
    /\ codec.kind = "cdh"
    /\ \E bytes \in {CentralDirectoryHeader_write(codec.h)} :
           WrittenAndRead(bytes, CentralDirectoryHeader_read(bytes, 0))

WriteReadEndOfCentralDirectoryRecord ==
    /\ codec.kind = "eocdr"
    /\ \E bytes \in {EndOfCentralDirectoryRecord_write(codec.h)} :
           WrittenAndRead(bytes, EndOfCentralDirectoryRecord_read(bytes, 0))

WriteReadMsdosDateTime ==
    /\ codec.kind = "packed"
    /\ \E bytes \in {MsdosDateTime_write(codec.h)} :
           WrittenAndRead(bytes, MsdosDateTime_read(bytes, 0))

\* MsdosDateTime::new(year, month, day, hour, minute, second).to_tuple()
NewToTuple ==
    /\ codec.kind = "datetime"
    /\ \E dt \in {MsdosDateTime_new(codec.h[1], codec.h[2], codec.h[3],
                                    codec.h[4], codec.h[5], codec.h[6])} :
           WrittenAndRead(dt, MsdosDateTime_to_tuple(dt))

NextCodec ==
    \/ NewToTuple
    \/ WriteReadMsdosDateTime
    \/ WriteReadLocalFileHeader
    \/ WriteReadCentralDirectoryHeader
    \/ WriteReadEndOfCentralDirectoryRecord

SpecCodec == InitCodec /\ [][NextCodec]_vars

\* ------------------------------------------------------------------------
\* Properties
\* ------------------------------------------------------------------------

\* C1: a decode failure is the final element of the sequence of the Files
\* iterator: once next() has returned Some(Err(..)), the next call on the
\* same iterator returns None.
C1_FailureIsFinalElement ==
    \A k \in 1..(Len(yielded) - 1) :
        yielded[k].tag = "SomeErr" => yielded[k + 1].tag = "None"

\* the offset of the k-th central directory header: central_directory_offset
\* plus the sum of total_size() of the headers before it
RECURSIVE C2_HeaderOffset(_)
C2_HeaderOffset(k) ==
    IF k = 1 THEN AsUint(end_record.central_directory_offset)
    ELSE C2_HeaderOffset(k - 1)
             + CentralDirectoryHeader_total_size(
                   CentralDirectoryHeader_read(stream, C2_HeaderOffset(k - 1)).h)

C2_AllHeadersDecode ==
    \A k \in 1..end_record.total_entry_count :
        CentralDirectoryHeader_read(stream, C2_HeaderOffset(k)).tag = "Ok"

\* C2: when the end record declares N entries and the N central directory
\* headers all decode, the k-th call of next() on the iterator of files_raw()
\* returns, for k <= N, Ok of the descriptor of the k-th header in storage
\* order, and None for every k > N.
C2_YieldsDeclaredEntriesThenNone ==
    (files.map = "raw" /\ C2_AllHeadersDecode) =>
        \A k \in 1..Len(yielded) :
            IF k <= end_record.total_entry_count
            THEN yielded[k] =
                     SomeOk(FileInfo_from_cdh(
                         CentralDirectoryHeader_read(stream, C2_HeaderOffset(k)).h))
            ELSE yielded[k] = None

\* C2's case: three entries declared and decoded, "a", "b", "a" in storage
\* order, and five calls of next()
C2_Witness ==
    /\ phase = "open"
    /\ files.alive
    /\ files.map = "raw"
    /\ end_record.total_entry_count = 3
    /\ C2_AllHeadersDecode
    /\ Len(yielded) = 5
    /\ yielded[1].info.name = <<97>>
    /\ yielded[2].info.name = <<98>>
    /\ yielded[3].tag = "SomeOk"
    /\ yielded[5].tag = "None"

\* the offsets at which the stream holds the bytes 50 4b 05 06
C3_Matches ==
    { o \in 0..(Len(stream) - 4) :
        /\ stream[o + 1] = 80
        /\ stream[o + 2] = 75
        /\ stream[o + 3] = 5
        /\ stream[o + 4] = 6 }

C3_LargestMatch == CHOOSE o \in C3_Matches : \A q \in C3_Matches : q <= o

\* what ZipReader::new gave is the end record decoded at the offset
C3_DecodedAt(d) ==
    /\ d.tag = "Ok" => (phase \in {"open", "panicked"} /\ end_record = d.h)
    /\ d.tag = "Err" => (phase = "failed" /\ last.op = "new" /\ last.err = d.err)
    /\ d.tag = "Panic" => phase = "panicked"

\* C3: once ZipReader::new has returned, the end record is the one decoded at
\* the largest offset whose word is 0x06054b50 (file_size - 22 for an archive
\* of the model without a comment); if no offset holds the signature, as in
\* every stream shorter than 4 bytes, it has failed with NotAZipFile.  (The
\* last call is "open" when File::open failed and new was not called.)
C3_EndRecordAtLargestMatch ==
    last.op \notin {"none", "open"} =>
        /\ IF C3_Matches = {}
           THEN /\ phase = "failed"
                /\ last.op = "new"
                /\ last.err = NotAZipFile
                /\ end_record_offset = -1
           ELSE /\ end_record_offset = C3_LargestMatch
                /\ C3_DecodedAt(EndOfCentralDirectoryRecord_read(stream, C3_LargestMatch))
        /\ stream \in PlainArchives
               => (end_record_offset = Len(stream) - 22 /\ phase # "failed")

\* C3's case: the signature stands at two offsets, and the reader is open on
\* the end record at the larger one
C3_Witness ==
    /\ last.op = "new"
    /\ phase = "open"
    /\ Cardinality(C3_Matches) = 2
    /\ end_record_offset = C3_LargestMatch
    /\ end_record_offset = Len(stream) - 22

\* the local file header of the entry last read or extracted
C4_LocalHeader == LocalFileHeader_read(stream, AsUint(last.f.local_file_header_offset))

\* the bytes read or inflated for it, before the CRC check: flate the
\* decoder inflate_bytes is
C4_Produced(flate) ==
    IF C4_LocalHeader.tag # "Ok" THEN BytesErr(NoError, 0)
    ELSE IF C4_LocalHeader.h.compression_method = 0
    THEN read_stored_file(
             stream,
             C4_LocalHeader.pos,
             AsUint(last.f.local_file_header_offset)
                 + LocalFileHeader_total_size(C4_LocalHeader.h),
             C4_LocalHeader.h.uncompressed_size)
    ELSE IF C4_LocalHeader.h.compression_method = 8
    THEN read_deflated_file(
             stream,
             C4_LocalHeader.pos,
             AsUint(last.f.local_file_header_offset)
                 + LocalFileHeader_total_size(C4_LocalHeader.h),
             C4_LocalHeader.h.compressed_size,
             C4_LocalHeader.h.uncompressed_size,
             flate)
    ELSE BytesErr(NoError, 0)

\* what extract appended to the writer
C4_Appended == SubSeq(last.written, Len(last.before) + 1, Len(last.written))

\* the bytes produced, whichever decoder inflate_bytes is, do not have the
\* CRC-32 of the local file header
C4_ProducedOtherCrc ==
    \A flate \in Inflaters :
        /\ C4_Produced(flate).tag = "Ok"
        /\ crc32(C4_Produced(flate).bytes) # C4_LocalHeader.h.crc32

\* C4: read returns Ok(bytes) only with crc32(bytes) equal to the CRC-32 of
\* the local file header, and CrcError when the bytes produced have another
\* CRC-32; extract appends to the writer only bytes with that CRC-32, and
\* nothing when read fails.
C4_OnlyVerifiedBytes ==
    /\ (last.op = "read" /\ last.tag = "Ok")
           => crc32(last.bytes) = C4_LocalHeader.h.crc32
    /\ (last.op \in {"read", "extract"} /\ C4_ProducedOtherCrc)
           => (last.tag = "Err" /\ last.err = CrcError /\ last.bytes = <<>>)
    /\ last.op = "extract"
           => /\ Len(last.written) >= Len(last.before)
              /\ last.written = last.before \o C4_Appended
              /\ IF last.tag = "Ok"
                 THEN crc32(C4_Appended) = C4_LocalHeader.h.crc32
                 ELSE C4_Appended = <<>>

\* C4's case: the bytes of a stored entry do not have the declared CRC-32;
\* extract has failed with CrcError and the writer holds what it held
C4_Witness ==
    /\ last.op = "extract"
    /\ C4_ProducedOtherCrc
    /\ Len(C4_Produced(Strict).bytes) = 2
    /\ last.err = CrcError
    /\ last.written = <<42>>

\* the archive of the deflated entry "b" with one bit of its compressed
\* bytes flipped
C5_TamperedArchives ==
    { Flip(Archive(<<EntryB>>, <<>>),
           <<LocalFileHeader_total_size(LocalHeaderOf(EntryB)) + o, b>>) :
        o \in 0..(Len(EntryB.data) - 1), b \in 0..7 }

C5_Tampered == stream \in C5_TamperedArchives

C5_ReadOfTampered ==
    /\ C5_Tampered
    /\ last.op = "read"
    /\ last.f.name = EntryB.name

\* C5: reading a Deflate entry with one bit of its compressed bytes flipped
\* fails with CrcError returned to the caller; it ends neither in another
\* failure of the decompression nor in a failed assert! on the inflated
\* length.
C5_TamperedFailsWithCrcError ==
    C5_ReadOfTampered => (last.tag = "Err" /\ last.err = CrcError)

\* the local file header of the entry last read
C6_LocalHeader == LocalFileHeader_read(stream, AsUint(last.f.local_file_header_offset))

\* C6: read of an entry whose local file header declares a method other than
\* 0 and 8 returns an error, and no bytes.
C6_UnknownMethodReturnsError ==
    (/\ last.op = "read"
     /\ C6_LocalHeader.tag = "Ok"
     /\ C6_LocalHeader.h.compression_method \notin {0, 8})
        => (last.tag = "Err" /\ last.bytes = <<>>)

\* the stream holds, at the offset of the decode, a whole local file header:
\* the signature, the fixed fields, a name that is UTF-8 and the extra field
C7_WholeHeader ==
    /\ dec.kind = "lfh"
    /\ dec.offset + 30 <= Len(stream)
    /\ SubSeq(stream, dec.offset + 1, dec.offset + 4) = <<80, 75, 3, 4>>
    /\ dec.offset + 30 + read_le_u16(stream, dec.offset + 26).val
           + read_le_u16(stream, dec.offset + 28).val <= Len(stream)
    /\ IsUtf8(SubSeq(stream, dec.offset + 31,
                     dec.offset + 30 + read_le_u16(stream, dec.offset + 26).val))

\* the flag word of that header
C7_Flags == stream[dec.offset + 7] + 256 * stream[dec.offset + 8]

C7_AnyOf(masks) == \E m \in masks : (C7_Flags \div m) % 2 = 1

\* C7 as stated: LocalFileHeader::read yields no header when one of the flags
\* 1, 8, 32, 64, 2048 is set, and yields the header when none of them is.
C7_RejectsFirstFiveFlags ==
    C7_WholeHeader => (C7_AnyOf({1, 8, 32, 64, 2048}) <=> dec.tag # "Ok")

\* C7, amended: LocalFileHeader::read fails the task (an assert!), after it
\* has read the whole header, when one of the flags 1 (encrypted), 8 (data
\* descriptor), 32 (patched data), 64 (strong encryption), 8192 (masking) is
\* set; a header with none of these set is returned, also when flag 2048
\* (UTF-8 name) is set.
C7_RejectsAssertedFlags ==
    C7_WholeHeader =>
        IF C7_AnyOf({1, 8, 32, 64, 8192})
        THEN /\ dec.tag = "Panic"
             /\ phase = "panicked"
             /\ dec.pos = dec.offset + 30 + read_le_u16(stream, dec.offset + 26).val
                              + read_le_u16(stream, dec.offset + 28).val
        ELSE /\ dec.tag = "Ok"
             /\ dec.h.general_purpose_bit_flag = C7_Flags

\* C7's case: a header with flag 2048 and none of the others has been decoded
C7_Witness ==
    /\ C7_WholeHeader
    /\ C7_Flags = 2048
    /\ dec.tag = "Ok"
    /\ dec.h.file_name = <<98>>

\* the signature the record of the kind begins with
C8_Expected ==
    IF dec.kind = "lfh" THEN LFH_SIGNATURE
    ELSE IF dec.kind = "cdh" THEN CDH_SIGNATURE
    ELSE EOCDR_SIGNATURE

\* C8: decoding a record where the first word is not its signature fails with
\* InvalidSignature of the word read, and reads nothing after the word.
C8_FailsWithInvalidSignature ==
    (/\ dec.kind \in {"lfh", "cdh", "eocdr"}
     /\ read_le_u32(stream, dec.offset).ok
     /\ read_le_u32(stream, dec.offset).val # C8_Expected)
        => /\ dec.tag = "Err"
           /\ dec.err = InvalidSignature(read_le_u32(stream, dec.offset).val)
           /\ dec.pos = dec.offset + 4

\* C9: info(name) returns the descriptor of an entry of that name or fails
\* with FileNotFoundInArchive; it does not fail the task.
C9_InfoNeverCrashes ==
    last.op = "info" =>
        /\ last.tag # "Panic"
        /\ last.tag = "Ok" => equiv(last.info.name, last.name)
        /\ last.tag = "Err" => last.err = FileNotFoundInArchive

\* C10: for a header decoded successfully, total_size() is the number of
\* bytes the decode consumed from the header's offset on: 30 + name + extra
\* for a local file header, 46 + name + extra + comment for a central
\* directory header.
C10_TotalSizeIsBytesConsumed ==
    /\ (dec.kind = "lfh" /\ dec.tag = "Ok")
           => /\ LocalFileHeader_total_size(dec.h) = dec.pos - dec.offset
              /\ LocalFileHeader_total_size(dec.h)
                     = 30 + Len(dec.h.file_name) + Len(dec.h.extra_field)
    /\ (dec.kind = "cdh" /\ dec.tag = "Ok")
           => /\ CentralDirectoryHeader_total_size(dec.h) = dec.pos - dec.offset
              /\ CentralDirectoryHeader_total_size(dec.h)
                     = 46 + Len(dec.h.file_name) + Len(dec.h.extra_field)
                          + Len(dec.h.file_comment)

\* C10's case: a central directory header with a name, an extra field and a
\* comment has been decoded
C10_Witness ==
    /\ dec.kind = "cdh"
    /\ dec.tag = "Ok"
    /\ dec.h.file_name = <<98>>
    /\ dec.h.extra_field = <<2, 3>>
    /\ dec.h.file_comment = <<99>>
    /\ dec.pos - dec.offset = 50

\* a record was written and read back
C11_RoundTripped == codec.kind \in {"lfh", "cdh", "eocdr"} /\ codec.done

\* read returned a record equal to the one written, and consumed the bytes
C11_ReadBackEqual ==
    /\ codec.back.tag = "Ok"
    /\ codec.back.h = codec.h
    /\ codec.back.pos = Len(codec.bytes)

C11_AnyFlagOf(masks) ==
    \E m \in masks : (codec.h.general_purpose_bit_flag \div m) % 2 = 1

\* C11 as stated: a record with valid field values (lengths those of the
\* name, extra field and comment; names and comments UTF-8; for a local file
\* header none of the flags 1, 8, 32, 64, 2048 the spec calls unsupported) is
\* read back from the bytes write gave, equal in every field.
C11_RoundTripOfValidRecords ==
    (/\ C11_RoundTripped
     /\ codec.kind = "lfh" => ~C11_AnyFlagOf({1, 8, 32, 64, 2048}))
        => C11_ReadBackEqual

\* C11, amended: a CentralDirectoryHeader and an EndOfCentralDirectoryRecord
\* are read back from the bytes write gave, equal in every field, and so is a
\* LocalFileHeader whose flag word has none of the flags 1, 8, 32, 64, 8192;
\* reading back a LocalFileHeader with one of these flags fails the task.
C11_RoundTripOfReadableRecords ==
    C11_RoundTripped =>
        IF codec.kind = "lfh" /\ C11_AnyFlagOf({1, 8, 32, 64, 8192})
        THEN codec.back.tag = "Panic"
        ELSE C11_ReadBackEqual

\* C11's case: a local file header with the UTF-8 flag, a name of three
\* bytes, an extra field and sizes that differ has been written and read back
C11_Witness ==
    /\ C11_RoundTripped
    /\ codec.kind = "lfh"
    /\ codec.h.general_purpose_bit_flag = 2048
    /\ codec.h.file_name = <<195, 169, 98>>
    /\ codec.h.extra_field = <<0, 255>>
    /\ codec.h.uncompressed_size = <<513, 65535>>
    /\ Len(codec.bytes) = 35
    /\ codec.back.h = codec.h

\* C12: for year in 1980..2107, month in 0..15, day in 0..31, hour in 0..31,
\* minute in 0..63 and second in 0..63,
\* MsdosDateTime::new(year, month, day, hour, minute, second).to_tuple() is
\* (year, month, day, hour, minute, second & ~1).
C12_TimestampRoundTrip ==
    (codec.kind = "datetime" /\ codec.done)
        => codec.back = << codec.h[1], codec.h[2], codec.h[3], codec.h[4],
                           codec.h[5], codec.h[6] - (codec.h[6] % 2) >>

\* C12's case: every field at the end of its range, the second odd; all bits
\* of time and date are set and the second comes back as 62
C12_Witness ==
    /\ codec.kind = "datetime"
    /\ codec.done
    /\ codec.h = <<2107, 15, 31, 31, 63, 63>>
    /\ codec.bytes = <<65535, 65535>>
    /\ codec.back = <<2107, 15, 31, 31, 63, 62>>

\* positions the reader could have been left at instead: the start and the
\* end of the stream
C13_OtherPositions == {0, Len(stream)}

\* the cursor of the iterator
C13_Cursor ==
    [current_entry |-> files.current_entry, current_offset |-> files.current_offset]

\* next() from each other position returns what it returns from the
\* position the reader is at, and leaves the same cursor
C13_NextSame ==
    \A here \in {Map_next(files.map, Files_next(stream, end_record, C13_Cursor, pos))} :
        \A q \in C13_OtherPositions :
            \A there \in {Map_next(files.map,
                                   Files_next(stream, end_record, C13_Cursor, q))} :
                there.res = here.res /\ there.it = here.it

C13_SameResult(a, b) == a.tag = b.tag /\ a.err = b.err

C13_InfoSame(name) ==
    \A here \in {ZipReader_info(stream, end_record, pos, name)} :
        \A q \in C13_OtherPositions :
            \A there \in {ZipReader_info(stream, end_record, q, name)} :
                C13_SameResult(there, here) /\ there.info = here.info

\* ... whichever decoder inflate_bytes is
C13_ReadSame(f) ==
    \A flate \in Inflaters :
        \A here \in {ZipReader_read(stream, f, pos, flate)} :
            \A q \in C13_OtherPositions :
                \A there \in {ZipReader_read(stream, f, q, flate)} :
                    C13_SameResult(there, here) /\ there.bytes = here.bytes

\* C13: in every state an open reader reaches by a sequence of next(), info
\* and read calls, what each of the three returns next (for next() also the
\* cursor it leaves) is the same from the position the earlier calls left the
\* stream at as from any other position: it is determined by the bytes of the
\* stream and by the cursor, the name or the descriptor.
C13_ResultsIndependentOfPosition ==
    phase = "open" =>
        /\ files.alive => C13_NextSame
        /\ \A name \in Names : C13_InfoSame(name)
        /\ \A f \in Held : C13_ReadSame(f)

\* C13's case: after three steps of the iterator the second entry has been
\* read; the stream is left behind its data, and from there a read of the
\* first entry, at offset 0, gives its bytes and the lookup of "b" finds it
C13_Witness ==
    /\ phase = "open"
    /\ last.op = "read"
    /\ last.tag = "Ok"
    /\ Len(yielded) = 3
    /\ yielded[1].tag = "SomeOk"
    /\ last.f = yielded[2].info
    /\ pos > 0
    /\ AsUint(yielded[1].info.local_file_header_offset) = 0
    /\ \A flate \in Inflaters :
           /\ ZipReader_read(stream, yielded[1].info, pos, flate).tag = "Ok"
           /\ ZipReader_read(stream, yielded[1].info, pos, flate).bytes = <<7, 9>>
    /\ ZipReader_info(stream, end_record, pos, <<98>>).tag = "Ok"

====
